---- MODULE Spec2Model ----
(***************************************************************************)
(* Model of src/src/App.js: the React component App of the electric car    *)
(* engine sound emulator.                                                  *)
(*                                                                         *)
(* Units.  The throttle lives on the 0.01 grid of the range input (the     *)
(* wheel step 0.02 is two grid points), so it is kept as an integer number *)
(* of hundredths, 0..100 for [0,1].  A frequency that has not been rounded *)
(* (newFreq) is kept in hundredths of a hertz, a gain in hundredths.       *)
(* Arithmetic on the grid is exact; the rounding error of IEEE doubles is  *)
(* not modelled.                                                           *)
(*                                                                         *)
(* React.  The hook variables hold the state with every queued update      *)
(* applied.  `view` holds the values the last render captured: they are    *)
(* what the closures startAudio and the effect read.  `pc` is the position *)
(* of the component: "idle" (quiescent, waiting for an event), "render"    *)
(* (a state update is queued, the component function is about to run),     *)
(* "effect" (the render changed a dependency, the effect is about to run), *)
(* "error" (a render or effect threw: React unmounted the tree).           *)
(***************************************************************************)
EXTENDS Integers, Sequences, FiniteSets, TLC

VARIABLES
  isRunning,      \* useState(false), line 10
  frequency,      \* useState(40), line 11: integer Hz
  throttle,       \* useState(0), line 12: hundredths
  data,           \* useState([]), line 13: sequence of samples
  tick,           \* useState(0), line 14
  engineType,     \* useState("porsche"), line 15
  audioCtxRef,    \* useRef(null), line 7: 0 is null, n > 0 the n-th AudioContext made
  oscillatorRef,  \* useRef(null), line 8
  gainRef,        \* useRef(null), line 9
  view,           \* the state values captured by the closures of the last render
  pc,             \* position of the component
  ctxCreated,     \* number of AudioContext objects constructed so far
  recomputations, \* history: number of times the body of the effect has run
  lastEvent       \* history: the last event delivered and the state it found

progVars == <<isRunning, frequency, throttle, data, tick, engineType,
              audioCtxRef, oscillatorRef, gainRef>>

vars == <<isRunning, frequency, throttle, data, tick, engineType,
          audioCtxRef, oscillatorRef, gainRef, view, pc, ctxCreated,
          recomputations, lastEvent>>

----------------------------------------------------------------------------
(* Bounds of the model *)

\* events are delivered while fewer than MaxTick recomputations have run (Spec)
MaxTick == 2
\* the same for the long runs of SpecLong
MaxLongTick == 26
\* the same for the sweep of SpecSweep
MaxSweepTick == 1
\* AudioContext objects constructed in one run
MaxContexts == 2

\* what a wheel event can carry in deltaY
WheelDeltas == {-100, 0, 100}
\* positions asked of the slider, in hundredths; some lie outside [0,1]
SliderInputs == {-50, 0, 25, 50, 100, 150}
\* slider positions of the long runs
LongSliderInputs == {0, 100}
\* identifiers that name no preset
UnknownIds == {"tesla"}
\* slider positions of the sweep: every position of the range input
SweepSliderInputs == 0..100
\* the step of start() that throws, "none" when none does
FailSteps == {"none", "ctx", "osc", "gain", "start"}

----------------------------------------------------------------------------
(* Constants of the program *)

enginePresets ==
  [ porsche |-> [baseFreq |-> 40, maxFreq |-> 2000, wave |-> "sawtooth", gain |-> 5],
    ferrari |-> [baseFreq |-> 80, maxFreq |-> 4000, wave |-> "square",   gain |-> 5],
    mustang |-> [baseFreq |-> 50, maxFreq |-> 2500, wave |-> "triangle", gain |-> 7] ]

PresetNames == DOMAIN enginePresets

\* the values of the three radio inputs
RadioValues == {"porsche", "ferrari", "mustang"}

\* wheel step 0.02, in hundredths
WheelStep == 2
\* prev.slice(-19)
SliceKeep == 19
\* min, max of the range input, in hundredths
RangeMin == 0
RangeMax == 100

NULL == [kind |-> "null"]

----------------------------------------------------------------------------
(* Pure helpers *)

Min(a, b) == IF a < b THEN a ELSE b
Max(a, b) == IF a > b THEN a ELSE b

\* Math.round of a non-negative number given in hundredths: floor(x + 0.5)
MathRound100(x100) == (x100 + 50) \div 100

\* Math.round(x / 100) of a non-negative number given in hundredths
MathRoundDiv100(x100) == (x100 + 5000) \div 10000

\* faulty variant: the throttle taken from the wrong end
newFreqInverted(preset, thr) ==
  preset.maxFreq * 100 - (preset.maxFreq - preset.baseFreq) * thr

\* faulty variant: the span taken as maxFreq instead of maxFreq - baseFreq
newFreqFullSpan(preset, thr) == preset.baseFreq * 100 + preset.maxFreq * thr

\* preset.baseFreq + (preset.maxFreq - preset.baseFreq) * throttle, in hundredths of Hz
newFreq(preset, thr) ==
  preset.baseFreq * 100 + (preset.maxFreq - preset.baseFreq) * thr

\* faulty variant: slice(-20), one element too many kept
SliceLastTwenty(s) ==
  IF Len(s) <= SliceKeep + 1 THEN s ELSE SubSeq(s, Len(s) - SliceKeep, Len(s))

\* prev.slice(-19): the last 19 elements, all of them when there are fewer
SliceLast(s) ==
  IF Len(s) <= SliceKeep THEN s ELSE SubSeq(s, Len(s) - SliceKeep + 1, Len(s))

\* faulty variant: the throttle is not clamped at 0
ClampThrottleNoFloor(t) == IF t > 100 THEN 100 ELSE t

\* Math.min(1, Math.max(0, newThrottle))
ClampThrottle(t) == Min(100, Max(0, t))

\* faulty variant: a range input without its max attribute
SanitizeRangeNoMax(x) == IF x < RangeMin THEN RangeMin ELSE x

\* the value a range input with min="0" max="1" reports for an asked position
SanitizeRange(x) == IF x < RangeMin THEN RangeMin ELSE IF x > RangeMax THEN RangeMax ELSE x

Snapshot == [isRunning |-> isRunning, engineType |-> engineType,
             tick |-> tick, throttle |-> throttle]

----------------------------------------------------------------------------
Init ==
  /\ isRunning = FALSE
  /\ frequency = 40
  /\ throttle = 0
  /\ data = << >>
  /\ tick = 0
  /\ engineType = "porsche"
  /\ audioCtxRef = 0
  /\ oscillatorRef = NULL
  /\ gainRef = NULL
  /\ view = [isRunning |-> FALSE, engineType |-> "porsche", tick |-> 0, throttle |-> 0]
  /\ pc = "idle"
  /\ ctxCreated = 0
  /\ recomputations = 0
  /\ lastEvent = [op |-> "none", num |-> 0, id |-> "", running |-> FALSE,
                  thr |-> 0, engine |-> "porsche", n |-> 0, data |-> << >>]

\* the event and the state it found: isRunning, throttle, engineType, the
\* number of recomputations so far and the history
Event(op, num, id) ==
  [op |-> op, num |-> num, id |-> id, running |-> isRunning,
   thr |-> throttle, engine |-> engineType, n |-> recomputations, data |-> data]

\* after a handler: a re-render is scheduled when a hook's state changed, and
\* stays scheduled when one already was
AfterUpdate(changed) == pc' = IF changed \/ pc = "render" THEN "render" ELSE "idle"

----------------------------------------------------------------------------
(* startAudio, lines 44-68.  fail names the step that throws. *)

NewOscillator(ctx) ==
  [kind |-> "oscillator", ctx |-> ctx, type |-> "sine", freq |-> 440,
   target |-> -1, connected |-> FALSE, started |-> FALSE]

NewGain(ctx) == [kind |-> "gain", ctx |-> ctx, gain |-> 100, connected |-> FALSE]

\* faulty variant: startAudio without its if (!isRunning) guard
AlreadyRunningNever == FALSE

\* if (!isRunning), line 45: the isRunning of the render that made the handler
AlreadyRunning == view.isRunning

\* where the handler stops: the step made to throw, or line 51 (preset.wave of
\* undefined) when engineType names no preset and the handler gets that far
ThrowsAt(fail) ==
  IF fail \in {"ctx", "osc", "gain"} THEN fail
  ELSE IF view.engineType \notin PresetNames THEN "preset"
  ELSE fail

startAudio(fail) ==
  /\ lastEvent' = Event("start", 0, fail)
  /\ UNCHANGED <<frequency, throttle, data, tick, engineType, view, recomputations>>
  /\ IF AlreadyRunning \/ ThrowsAt(fail) = "ctx"
     THEN UNCHANGED <<isRunning, audioCtxRef, oscillatorRef, gainRef, ctxCreated, pc>>
     ELSE LET ctx    == ctxCreated + 1
              at     == ThrowsAt(fail)
              preset == enginePresets[view.engineType]
              osc    == [NewOscillator(ctx) EXCEPT !.type = preset.wave,
                                                   !.freq = preset.baseFreq,
                                                   !.connected = TRUE]
              gn     == [NewGain(ctx) EXCEPT !.connected = TRUE, !.gain = preset.gain]
          IN /\ ctxCreated < MaxContexts
             /\ ctxCreated' = ctx
             /\ audioCtxRef' = ctx
             /\ oscillatorRef' = CASE at = "osc"    -> oscillatorRef
                                   [] at = "gain"   -> NewOscillator(ctx)
                                   [] at = "preset" -> NewOscillator(ctx)
                                   [] at = "start"  -> osc
                                   [] OTHER         -> [osc EXCEPT !.started = TRUE]
             /\ gainRef' = CASE at \in {"osc", "gain"} -> gainRef
                             [] at = "preset"          -> NewGain(ctx)
                             [] OTHER                  -> gn
             /\ isRunning' = IF at = "none" THEN TRUE ELSE isRunning
             /\ AfterUpdate(isRunning' # isRunning)

----------------------------------------------------------------------------
(* handleScroll, lines 70-76 *)

handleScroll(deltaY) ==
  /\ lastEvent' = Event("wheel", deltaY, "")
  /\ throttle' = ClampThrottle(throttle + (IF deltaY < 0 THEN WheelStep ELSE -WheelStep))
  /\ AfterUpdate(throttle' # throttle)
  /\ UNCHANGED <<isRunning, frequency, data, tick, engineType, audioCtxRef,
                 oscillatorRef, gainRef, view, ctxCreated, recomputations>>

(* onChange of the range input, lines 130-139 *)
sliderOnChange(x) ==
  /\ lastEvent' = Event("slider", x, "")
  /\ throttle' = SanitizeRange(x)
  /\ AfterUpdate(throttle' # throttle)
  /\ UNCHANGED <<isRunning, frequency, data, tick, engineType, audioCtxRef,
                 oscillatorRef, gainRef, view, ctxCreated, recomputations>>

\* faulty variant: selecting a preset also stops the engine
radioOnChangeStops(value) ==
  /\ lastEvent' = [op |-> "radio", num |-> 0, id |-> value, running |-> isRunning,
                   thr |-> throttle, engine |-> engineType, n |-> recomputations,
                   data |-> data]
  /\ engineType' = value
  /\ isRunning' = FALSE
  /\ pc' = IF engineType' # engineType \/ isRunning THEN "render" ELSE "idle"
  /\ UNCHANGED <<frequency, throttle, data, tick, audioCtxRef,
                 oscillatorRef, gainRef, view, ctxCreated, recomputations>>

(* onChange of a radio input, lines 90-96, 100-106, 110-116 *)
radioOnChange(value) ==
  /\ lastEvent' = Event("radio", 0, value)
  /\ engineType' = value
  /\ AfterUpdate(engineType' # engineType)
  /\ UNCHANGED <<isRunning, frequency, throttle, data, tick, audioCtxRef,
                 oscillatorRef, gainRef, view, ctxCreated, recomputations>>

----------------------------------------------------------------------------
(* The component function runs again: the closures capture the new state,  *)
(* and the effect is scheduled when one of [throttle, isRunning,           *)
(* engineType] differs from the previous render's (line 42).               *)

\* faulty variant: isRunning left out of the dependency list
DepsChangedNoRunning ==
  <<throttle, engineType>> # <<view.throttle, view.engineType>>

DepsChanged ==
  <<throttle, isRunning, engineType>> # <<view.throttle, view.isRunning, view.engineType>>

Render ==
  /\ pc = "render"
  /\ view' = Snapshot
  /\ pc' = IF DepsChanged THEN "effect" ELSE "idle"
  /\ UNCHANGED <<progVars, ctxCreated, recomputations, lastEvent>>

\* Speed: {Math.round(frequency / 100)} km/h, line 144
SpeedShown == MathRound100(frequency)

\* faulty variant: the effect's guard without isRunning
EffectGuardNoRunning == oscillatorRef # [kind |-> "null"] /\ gainRef # [kind |-> "null"]

(* The effect, lines 24-42 *)
EffectGuard == view.isRunning /\ oscillatorRef # NULL /\ gainRef # NULL

\* faulty variant: the recomputation also switches the waveform to the preset's
setTargetAndType(osc, preset, f100) == [osc EXCEPT !.target = f100, !.type = preset.wave]

\* oscillatorRef.current.frequency.setTargetAtTime(newFreq, currentTime, 0.05)
setTargetAtTime(osc, preset, f100) == [osc EXCEPT !.target = f100]

\* faulty variant: the index taken from the length of the history
SampleIndexByLength(f100) ==
  [index |-> Len(data), rpm |-> (f100 + 50) \div 100, speed |-> (f100 + 5000) \div 10000]

Sample(f100) ==
  [index |-> view.tick, rpm |-> MathRound100(f100), speed |-> MathRoundDiv100(f100)]

recomputeEffect ==
  /\ pc = "effect"
  /\ UNCHANGED <<isRunning, throttle, engineType, audioCtxRef, gainRef, view,
                 ctxCreated, lastEvent>>
  /\ IF ~EffectGuard
     THEN /\ pc' = "idle"
          /\ UNCHANGED <<frequency, data, tick, oscillatorRef, recomputations>>
     ELSE IF view.engineType \notin PresetNames
     THEN \* preset is undefined: preset.baseFreq throws a TypeError
          /\ pc' = "error"
          /\ UNCHANGED <<frequency, data, tick, oscillatorRef, recomputations>>
     ELSE LET preset == enginePresets[view.engineType]
              f100   == newFreq(preset, view.throttle)
          IN /\ oscillatorRef' = setTargetAtTime(oscillatorRef, preset, f100)
             /\ frequency' = MathRound100(f100)
             /\ data' = Append(SliceLast(data), Sample(f100))
             /\ tick' = tick + 1
             /\ recomputations' = recomputations + 1
             /\ pc' = "render"

----------------------------------------------------------------------------
(* Events are handled one at a time, each to quiescence (React flushes the *)
(* render and the effect of a discrete event before the next one).         *)

\* an event is delivered to the quiescent component; max bounds the run
Deliver(max) == pc = "idle" /\ tick < max

Next ==
  \/ Deliver(MaxTick) /\ \E fail \in FailSteps : startAudio(fail)
  \/ Deliver(MaxTick) /\ \E deltaY \in WheelDeltas : handleScroll(deltaY)
  \/ Deliver(MaxTick) /\ \E x \in SliderInputs : sliderOnChange(x)
  \/ Deliver(MaxTick) /\ \E value \in RadioValues : radioOnChange(value)
  \/ Render
  \/ recomputeEffect

Spec == Init /\ [][Next]_vars

(* Long runs: one start and a slider moved between its two ends, so that   *)
(* the history fills and evicts.                                           *)
NextLong ==
  \/ Deliver(MaxLongTick) /\ startAudio("none")
  \/ Deliver(MaxLongTick) /\ \E x \in LongSliderInputs : sliderOnChange(x)
  \/ Render
  \/ recomputeEffect

SpecLong == Init /\ [][NextLong]_vars

(* The radio handler called with an identifier that is not a preset: the   *)
(* three radio inputs never deliver one, the handler itself takes any.     *)
NextAnyPreset ==
  \/ Deliver(MaxTick) /\ \E fail \in FailSteps : startAudio(fail)
  \/ Deliver(MaxTick) /\ \E deltaY \in WheelDeltas : handleScroll(deltaY)
  \/ Deliver(MaxTick) /\ \E x \in SliderInputs : sliderOnChange(x)
  \/ Deliver(MaxTick) /\ \E value \in RadioValues \cup UnknownIds : radioOnChange(value)
  \/ Render
  \/ recomputeEffect

SpecAnyPreset == Init /\ [][NextAnyPreset]_vars

(* The sweep: the slider takes every position of its 0.01 grid, under each  *)
(* preset.                                                                 *)
NextSweep ==
  \/ Deliver(MaxSweepTick) /\ startAudio("none")
  \/ Deliver(MaxSweepTick) /\ \E x \in SweepSliderInputs : sliderOnChange(x)
  \/ Deliver(MaxSweepTick) /\ \E value \in RadioValues : radioOnChange(value)
  \/ Render
  \/ recomputeEffect

SpecSweep == Init /\ [][NextSweep]_vars

(* Start events dispatched back to back: a second start is handled before *)
(* the render scheduled by the first has run, so its handler is still the  *)
(* closure of the previous render.                                         *)
DeliverEarly(max) == pc \in {"idle", "render"} /\ tick < max

NextAsync ==
  \/ DeliverEarly(MaxTick) /\ startAudio("none")
  \/ Deliver(MaxTick) /\ \E deltaY \in WheelDeltas : handleScroll(deltaY)
  \/ Deliver(MaxTick) /\ \E x \in SliderInputs : sliderOnChange(x)
  \/ Deliver(MaxTick) /\ \E value \in RadioValues : radioOnChange(value)
  \/ Render
  \/ recomputeEffect

SpecAsync == Init /\ [][NextAsync]_vars

----------------------------------------------------------------------------
(* Properties *)

Clamp01(x) == IF x < 0 THEN 0 ELSE IF x > 100 THEN 100 ELSE x

Quiescent == pc = "idle"

LastSample == data[Len(data)]

C2_HistoryBound ==
  /\ Len(data) <= 20
  /\ recomputations >= 20 => Len(data) = 20

\* C2 witness: more recomputations than the history can hold have happened.
C2_Witness == recomputations = 22 /\ Len(data) = 20

\* C3: the history holds consecutive increasing indices ending at the number
\* of recomputations minus one (so the first sample has index 0 and each
\* recomputation appends the next index, whatever was evicted); after 25
\* recomputations it holds exactly the indices 5..24.
C3_IndexMonotone ==
  /\ recomputations = 0 => data = << >>
  /\ recomputations > 0 =>
       /\ data # << >>
       /\ LastSample.index = recomputations - 1
       /\ \A i \in 1..(Len(data) - 1) : data[i + 1].index = data[i].index + 1
  /\ recomputations = 25 =>
       [i \in 1..Len(data) |-> data[i].index] = [i \in 1..20 |-> i + 4]

\* C3 witness: 25 recomputations have happened and the oldest five are gone.
C3_Witness == recomputations = 25 /\ data[1].index = 5 /\ LastSample.index = 24

\* C4: a start event delivered while the engine is Running changes nothing
\* of the program's state and schedules no render, hence no recomputation.
C4_StartIdempotent ==
  [][(isRunning /\ \E fail \in FailSteps : startAudio(fail))
       => UNCHANGED <<progVars, view, pc, ctxCreated, recomputations>>]_vars

\* C4 witness: start has been delivered to a Running engine that had already
\* recorded its first sample.
C4_Witness ==
  /\ lastEvent.op = "start" /\ lastEvent.running
  /\ isRunning /\ Quiescent /\ Len(data) = 1

\* C5: the engine starts Idle, becomes Running only by a start() in which no
\* step fails, and once Running stays Running.
C5_RunningTerminal ==
  /\ ~isRunning
  /\ [][isRunning => isRunning']_vars
  /\ [][(~isRunning /\ isRunning') => startAudio("none")]_vars

\* C5 witness: the engine is still Running after a preset was selected and
\* the throttle moved while it ran.
C5_Witness ==
  /\ isRunning /\ Quiescent /\ recomputations = 2
  /\ lastEvent.op \in {"radio", "wheel", "slider"} /\ lastEvent.running

\* C6: while the engine is Idle the throttle and the preset of the events are
\* stored, the history is empty, the tick counter is 0, no recomputation has
\* run and no frequency target has been sent to an oscillator; before the
\* first start() there is no audio object at all.
C6_IdleNoEffect ==
  ~isRunning =>
    /\ data = << >>
    /\ tick = 0
    /\ recomputations = 0
    /\ oscillatorRef # NULL => oscillatorRef.target = -1
    /\ ctxCreated = 0 => (audioCtxRef = 0 /\ oscillatorRef = NULL /\ gainRef = NULL)
    /\ lastEvent.op = "radio" => engineType = lastEvent.id
    /\ lastEvent.op = "slider" => throttle = Clamp01(lastEvent.num)

\* C6 witness: an Idle engine holding audio objects of a start() that threw
\* has stored a new preset and a new throttle, and the effect has run.
C6_Witness ==
  /\ ~isRunning /\ Quiescent
  /\ oscillatorRef # NULL /\ gainRef # NULL
  /\ engineType = "ferrari" /\ throttle = 50 /\ lastEvent.op = "slider"
  /\ view.throttle = 50

\* C7 (as claimed): in every quiescent state, Idle or Running, frequency is
\* round(baseFreq + (maxFreq - baseFreq) * throttle) of the selected preset.
C7_FrequencyDerived ==
  Quiescent => frequency = MathRound100(newFreq(enginePresets[engineType], throttle))

\* C8: the sample appended by a recomputation has rpm = round(f) and
\* speed = round(f / 100) (round half up), f being base + (max - base) *
\* throttle of the preset and throttle of that recomputation; porsche at 0
\* gives 40 and 0, porsche at 1 gives 2000 and 20, ferrari at 0.5 gives 2040
\* and 20.
C8_SampleValues ==
  (Quiescent /\ isRunning) =>
    /\ data # << >>
    /\ LET p    == enginePresets[engineType]
           f100 == p.baseFreq * 100 + (p.maxFreq - p.baseFreq) * throttle
           s    == LastSample
       IN /\ s.rpm * 100 - 50 <= f100 /\ f100 < s.rpm * 100 + 50
          /\ s.speed * 10000 - 5000 <= f100 /\ f100 < s.speed * 10000 + 5000
    /\ (engineType = "porsche" /\ throttle = 0) => (LastSample.rpm = 40 /\ LastSample.speed = 0)
    /\ (engineType = "porsche" /\ throttle = 100) => (LastSample.rpm = 2000 /\ LastSample.speed = 20)
    /\ (engineType = "ferrari" /\ throttle = 50) => (LastSample.rpm = 2040 /\ LastSample.speed = 20)

\* C8 witness: a recomputation for ferrari at throttle 0.5 has appended its
\* sample.
C8_Witness ==
  /\ Quiescent /\ isRunning /\ engineType = "ferrari" /\ throttle = 50
  /\ LastSample.rpm = 2040 /\ LastSample.speed = 20

\* C9 (as claimed): an identifier that names no preset is rejected: the
\* selected preset is always a defined one, so is the one the effect reads,
\* and no recomputation fails on an undefined preset.
C9_InvalidPresetRejected ==
  /\ engineType \in PresetNames
  /\ view.engineType \in PresetNames
  /\ pc # "error"

\* C10 (as claimed): a start() of an Idle engine in which a step fails leaves
\* the state unchanged: isRunning stays false, no sample is appended and no
\* audio object of the failed attempt is retained.
C10_FailedStartLeavesNothing ==
  [][\A fail \in FailSteps \ {"none"} :
       (~isRunning /\ startAudio(fail)) => UNCHANGED progVars]_vars

\* C11 (as claimed): after a wheel tick the throttle is clamp(old + d, 0, 1)
\* with d = +0.02 for deltaY < 0, d = -0.02 for deltaY > 0 and d = 0 for
\* deltaY = 0.
C11_WheelStep ==
  lastEvent.op = "wheel" =>
    throttle = Clamp01(lastEvent.thr + (IF lastEvent.num < 0 THEN 2
                                        ELSE IF lastEvent.num > 0 THEN -2 ELSE 0))

\* C12: for every preset, the frequency sent to the oscillator and the rpm
\* and speed of the sample appended at throttle t2 are not less than those
\* computed at any throttle t1 <= t2 of the grid, and not greater than those
\* computed at any t1 >= t2.
C12_Monotone ==
  (Quiescent /\ isRunning) =>
    \A t1 \in 0..100 :
      LET p == enginePresets[engineType]
          f == newFreq(p, t1)
      IN /\ t1 <= throttle =>
              /\ f <= oscillatorRef.target
              /\ MathRound100(f) <= LastSample.rpm
              /\ MathRound100(f) <= frequency
              /\ MathRoundDiv100(f) <= LastSample.speed
         /\ t1 >= throttle =>
              /\ f >= oscillatorRef.target
              /\ MathRound100(f) >= LastSample.rpm
              /\ MathRound100(f) >= frequency
              /\ MathRoundDiv100(f) >= LastSample.speed

\* C12 witness: a sample has been appended for mustang at throttle 0.37.
C12_Witness ==
  /\ Quiescent /\ isRunning /\ engineType = "mustang" /\ throttle = 37
  /\ oscillatorRef.target = 95650 /\ LastSample.rpm = 957 /\ LastSample.speed = 10

\* C13: once a successful start() of an Idle engine has been handled, the
\* history holds exactly one sample, of index 0, computed from the throttle
\* and preset stored while Idle; once a change of throttle or preset of a
\* Running engine has been handled, exactly one sample has been appended.
C13_OneRecomputationPerChange ==
  /\ (Quiescent /\ lastEvent.op = "start" /\ lastEvent.id = "none" /\ ~lastEvent.running) =>
       /\ isRunning /\ recomputations = 1 /\ Len(data) = 1
       /\ LET p    == enginePresets[lastEvent.engine]
              f100 == p.baseFreq * 100 + (p.maxFreq - p.baseFreq) * lastEvent.thr
          IN /\ data[1].index = 0
             /\ data[1].rpm * 100 - 50 <= f100 /\ f100 < data[1].rpm * 100 + 50
             /\ data[1].speed * 10000 - 5000 <= f100 /\ f100 < data[1].speed * 10000 + 5000
  /\ (/\ Quiescent /\ lastEvent.running
      /\ lastEvent.op \in {"wheel", "slider", "radio"}
      /\ (throttle # lastEvent.thr \/ engineType # lastEvent.engine)) =>
       /\ recomputations = lastEvent.n + 1
       /\ Len(lastEvent.data) < 20 => data = Append(lastEvent.data, LastSample)

\* C13 witness: start() has been handled for ferrari at throttle 0.5, both
\* stored while Idle.
C13_Witness ==
  /\ Quiescent /\ lastEvent.op = "start" /\ lastEvent.id = "none" /\ ~lastEvent.running
  /\ lastEvent.engine = "ferrari" /\ lastEvent.thr = 50
  /\ Len(data) = 1 /\ data[1].rpm = 2040

\* C14: while the engine runs the oscillator's waveform and the gain stay as
\* start() set them, and once the selection of a different preset has been
\* handled the frequency target and the appended sample are those of the
\* newly selected preset.
C14_PresetSwitchKeepsWaveform ==
  /\ [][(isRunning /\ isRunning') =>
          (oscillatorRef'.type = oscillatorRef.type /\ gainRef'.gain = gainRef.gain)]_vars
  /\ []((/\ Quiescent /\ isRunning /\ lastEvent.running
         /\ lastEvent.op = "radio" /\ lastEvent.engine # engineType) =>
          LET p    == enginePresets[engineType]
              f100 == p.baseFreq * 100 + (p.maxFreq - p.baseFreq) * throttle
          IN /\ oscillatorRef.target = f100
             /\ recomputations = lastEvent.n + 1
             /\ LastSample.rpm * 100 - 50 <= f100 /\ f100 < LastSample.rpm * 100 + 50
             /\ LastSample.speed * 10000 - 5000 <= f100
             /\ f100 < LastSample.speed * 10000 + 5000)

\* C14 witness: mustang has been selected on an engine started as porsche,
\* which still sounds a sawtooth at gain 0.05.
C14_Witness ==
  /\ Quiescent /\ isRunning /\ lastEvent.running /\ lastEvent.op = "radio"
  /\ lastEvent.engine = "porsche" /\ engineType = "mustang"
  /\ oscillatorRef.type = "sawtooth" /\ gainRef.gain = 5
  /\ recomputations = 2

\* C15: after a wheel tick down at throttle 0, a wheel tick up at throttle 1,
\* a slider set to the current throttle or the selection of the current
\* preset, delivered to a Running engine, no recomputation happens: the
\* history, the tick counter and the number of recomputations are those the
\* event found.
C15_NoChangeNoRecomputation ==
  (/\ lastEvent.running
   /\ \/ lastEvent.op = "wheel" /\ lastEvent.num > 0 /\ lastEvent.thr = 0
      \/ lastEvent.op = "wheel" /\ lastEvent.num < 0 /\ lastEvent.thr = 100
      \/ lastEvent.op = "slider" /\ lastEvent.num = lastEvent.thr
      \/ lastEvent.op = "radio" /\ lastEvent.id = lastEvent.engine) =>
    /\ recomputations = lastEvent.n
    /\ tick = lastEvent.n
    /\ data = lastEvent.data

\* C15 witness: a wheel tick down has been delivered to an engine running at
\* throttle 0.
C15_Witness ==
  /\ lastEvent.running /\ lastEvent.op = "wheel" /\ lastEvent.num > 0
  /\ lastEvent.thr = 0 /\ Quiescent /\ Len(data) = 1

\* C16 (as claimed): in every quiescent Running state the speed shown equals
\* the speed of the most recently appended sample.
C16_SpeedShownIsSampleSpeed ==
  (Quiescent /\ isRunning) => SpeedShown = LastSample.speed

\* C17 (as claimed): at most one audio context, with its oscillator, is ever
\* created and started, also when a start event is handled before the render
\* that follows an earlier one.
C17_SingleAudioContext == ctxCreated <= 1

====
